---- MODULE Spec2Model ----
(***************************************************************************)
(* Model of the prospect tracker in src/app.py: the schema normalizer, the *)
(* session record collection with its filters and bulk increment, the      *)
(* template renderer, the calendar invite encoder and the analytics        *)
(* aggregator.                                                             *)
(*                                                                         *)
(* Text is a sequence of chunks.  A chunk is one character, except for the *)
(* string literals of the source that are only ever copied or searched for *)
(* as a whole (the iCalendar keywords), which are one chunk each.          *)
(***************************************************************************)
EXTENDS Integers, Sequences, FiniteSets, TLC

VARIABLES uploaded, df, status_filter, state_filter, company_filter, out

vars == <<uploaded, df, status_filter, state_filter, company_filter, out>>

(***************************************************************************)
(* Bounds of the model.                                                    *)
(***************************************************************************)
MaxCols == 2
MaxRows == 2
MaxAttempts == 1
MaxSelected == 1
MaxParts == 2
MaxRecords == 4
MaxTopN == 2

(***************************************************************************)
(* Python str operations, on Text.                                         *)
(***************************************************************************)
UpperChars == <<"A","B","C","D","E","F","G","H","I","J","K","L","M",
                "N","O","P","Q","R","S","T","U","V","W","X","Y","Z">>

LowerChars == <<"a","b","c","d","e","f","g","h","i","j","k","l","m",
                "n","o","p","q","r","s","t","u","v","w","x","y","z">>

Whitespace == {" ", "\n", "\t"}

ToLower == [c \in {UpperChars[i] : i \in 1..26} |-> LowerChars[CHOOSE i \in 1..26 : UpperChars[i] = c]]

ToUpper == [c \in {LowerChars[i] : i \in 1..26} |-> UpperChars[CHOOSE i \in 1..26 : LowerChars[i] = c]]

Range(f) == {f[i] : i \in DOMAIN f}

(* the element of a singleton: binds a value that is computed once *)
Only(S) == CHOOSE x \in S : TRUE

(* the sequence f with its elements computed *)
SeqOf(f) == f \o <<>>

lower(s) == SeqOf([i \in 1..Len(s) |-> IF s[i] \in DOMAIN ToLower THEN ToLower[s[i]] ELSE s[i]])

capitalize(s) ==
  SeqOf([i \in 1..Len(s) |->
           IF i = 1 /\ s[i] \in DOMAIN ToUpper THEN ToUpper[s[i]]
           ELSE IF i > 1 /\ s[i] \in DOMAIN ToLower THEN ToLower[s[i]]
           ELSE s[i]])

StartsWith(s, p) == Len(p) <= Len(s) /\ SubSeq(s, 1, Len(p)) = p

RECURSIVE replace(_, _, _)
replace(s, old, new) ==
  IF s = <<>> THEN <<>>
  ELSE IF old # <<>> /\ StartsWith(s, old)
       THEN new \o replace(SubSeq(s, Len(old) + 1, Len(s)), old, new)
       ELSE <<s[1]>> \o replace(Tail(s), old, new)

RECURSIVE lstrip(_)
lstrip(s) == IF s # <<>> /\ s[1] \in Whitespace THEN lstrip(Tail(s)) ELSE s

RECURSIVE rstrip(_)
rstrip(s) ==
  IF s # <<>> /\ s[Len(s)] \in Whitespace THEN rstrip(SubSeq(s, 1, Len(s) - 1)) ELSE s

strip(s) == rstrip(lstrip(s))

(* s.split(sep)[0] and the rest, for a separator of one or more chunks *)
RECURSIVE split(_, _)
split(s, sep) ==
  IF \E i \in 1..Len(s) : StartsWith(SubSeq(s, i, Len(s)), sep)
  THEN LET i == CHOOSE k \in 1..Len(s) :
                  /\ StartsWith(SubSeq(s, k, Len(s)), sep)
                  /\ \A j \in 1..(k - 1) : ~StartsWith(SubSeq(s, j, Len(s)), sep)
       IN <<SubSeq(s, 1, i - 1)>> \o split(SubSeq(s, i + Len(sep), Len(s)), sep)
  ELSE <<s>>

RECURSIVE join(_, _)
join(sep, parts) ==
  IF parts = <<>> THEN <<>>
  ELSE IF Len(parts) = 1 THEN parts[1]
  ELSE parts[1] \o sep \o join(sep, Tail(parts))

(***************************************************************************)
(* Cell values of a table.                                                 *)
(***************************************************************************)
Str(s) == [t |-> "str", s |-> s, n |-> 0]
Int_(n) == [t |-> "int", s |-> <<>>, n |-> n]
Float(tenths) == [t |-> "float", s |-> <<>>, n |-> tenths]
Inf == [t |-> "inf", s |-> <<>>, n |-> 0]
NaN == [t |-> "nan", s |-> <<>>, n |-> 0]
NaT == [t |-> "nat", s |-> <<>>, n |-> 0]
Ts(minutes) == [t |-> "ts", s |-> <<>>, n |-> minutes]
TsAware(utcMinutes) == [t |-> "tsaware", s |-> <<>>, n |-> utcMinutes]

isna(c) == c.t \in {"nan", "nat"}

(***************************************************************************)
(* Column labels (app.py lines 12-16 and 29-30).  C_x is the label x.      *)
(***************************************************************************)
C_Name == <<"N","a","m","e">>

C_Phone == <<"P","h","o","n","e">>

C_Email == <<"E","m","a","i","l">>

C_Company == <<"C","o","m","p","a","n","y">>

C_Title == <<"T","i","t","l","e">>

C_State == <<"S","t","a","t","e">>

C_Status == <<"S","t","a","t","u","s">>

C_MeetingDateTime == <<"M","e","e","t","i","n","g","D","a","t","e","T","i","m","e">>

C_CallbackDateTime == <<"C","a","l","l","b","a","c","k","D","a","t","e","T","i","m","e">>

C_LastCallDateTime == <<"L","a","s","t","C","a","l","l","D","a","t","e","T","i","m","e">>

C_Attempts == <<"A","t","t","e","m","p","t","s">>

C_Notes == <<"N","o","t","e","s">>

REQUIRED_COLUMNS == <<C_Name, C_Phone, C_Email>>

OPTIONAL_COLUMNS == <<C_Company, C_Title, C_State>>

APP_COLUMNS ==
  REQUIRED_COLUMNS \o OPTIONAL_COLUMNS \o
  <<C_Status, C_MeetingDateTime, C_CallbackDateTime, C_LastCallDateTime, C_Attempts, C_Notes>>

(* the lower-case names _standardize_columns looks for, in its order *)
RecognizedNames ==
  <<<<"n","a","m","e">>,
    <<"p","h","o","n","e">>,
    <<"e","m","a","i","l">>,
    <<"c","o","m","p","a","n","y">>,
    <<"t","i","t","l","e">>,
    <<"s","t","a","t","e">>,
    <<"s","t","a","t","u","s">>,
    <<"m","e","e","t","i","n","g","d","a","t","e","t","i","m","e">>,
    <<"c","a","l","l","b","a","c","k","d","a","t","e","t","i","m","e">>,
    <<"l","a","s","t","c","a","l","l","d","a","t","e","t","i","m","e">>,
    <<"a","t","t","e","m","p","t","s">>,
    <<"n","o","t","e","s">>>>

DateTimeNames ==
  {<<"m","e","e","t","i","n","g","d","a","t","e","t","i","m","e">>,
   <<"c","a","l","l","b","a","c","k","d","a","t","e","t","i","m","e">>,
   <<"l","a","s","t","c","a","l","l","d","a","t","e","t","i","m","e">>}

L_yes == <<"y","e","s">>

(***************************************************************************)
(* Tables: column labels and rows of cells, in positional order.           *)
(***************************************************************************)
NRows(t) == Len(t.rows)

ColIdx(t, label) == {i \in 1..Len(t.cols) : t.cols[i] = label}

HasCol(t, label) == ColIdx(t, label) # {}

(* row.get(label, default) of a row of table t *)
Get(t, r, label, default) ==
  IF HasCol(t, label)
  THEN t.rows[r][CHOOSE i \in ColIdx(t, label) : \A j \in ColIdx(t, label) : i <= j]
  ELSE default

(* df[[labels]]: every column carrying each label, label by label *)
RECURSIVE SelectIdx(_, _)
SelectIdx(cols, labels) ==
  IF labels = <<>> THEN <<>>
  ELSE SelectSeq([i \in 1..Len(cols) |-> i], LAMBDA i : cols[i] = Head(labels))
       \o SelectIdx(cols, Tail(labels))

Select(t, labels) ==
  LET idx == SelectIdx(t.cols, labels)
  IN [cols |-> SeqOf([k \in 1..Len(idx) |-> t.cols[idx[k]]]),
      rows |-> SeqOf([r \in 1..NRows(t) |->
                 SeqOf([k \in 1..Len(idx) |-> t.rows[r][idx[k]]])])]

(***************************************************************************)
(* pandas conversions used by the normalizer.                              *)
(***************************************************************************)
Digits == <<"0","1","2","3","4","5","6","7","8","9">>

IsDigit(c) == \E i \in 1..10 : Digits[i] = c

DigitVal(c) == (CHOOSE i \in 1..10 : Digits[i] = c) - 1

IsDigits(s) == s # <<>> /\ \A i \in 1..Len(s) : IsDigit(s[i])

RECURSIVE DigitsVal(_)
DigitsVal(s) ==
  IF s = <<>> THEN 0 ELSE 10 * DigitsVal(SubSeq(s, 1, Len(s) - 1)) + DigitVal(s[Len(s)])

(* an unsigned numeral: digits, or digits "." digit *)
ParseUnsigned(s) ==
  IF IsDigits(s) THEN Int_(DigitsVal(s))
  ELSE IF /\ Len(s) >= 3
          /\ s[Len(s) - 1] = "."
          /\ IsDigit(s[Len(s)])
          /\ IsDigits(SubSeq(s, 1, Len(s) - 2))
       THEN Float(10 * DigitsVal(SubSeq(s, 1, Len(s) - 2)) + DigitVal(s[Len(s)]))
       ELSE IF lower(s) = <<"i","n","f">> THEN Inf
       ELSE NaN

Negate(c) == IF c.t \in {"int", "float"} THEN [c EXCEPT !.n = 0 - c.n] ELSE c

(* pd.to_numeric(cell, errors='coerce') *)
to_numeric(c) ==
  CASE c.t \in {"int", "float", "inf"} -> c
    [] c.t = "str" ->
         LET s == strip(c.s)
         IN IF s # <<>> /\ s[1] = "-" THEN Negate(ParseUnsigned(Tail(s)))
            ELSE ParseUnsigned(s)
    [] OTHER -> NaN

fillna0(c) == IF isna(c) THEN Int_(0) ELSE c

(* .astype(int) of one cell; only called when no cell of the column is inf *)
astype_int(c) ==
  IF c.t # "float" THEN c
  ELSE IF c.n >= 0 THEN Int_(c.n \div 10)
  ELSE Int_(0 - ((0 - c.n) \div 10))

(* pd.to_datetime(cell, errors='coerce'): the texts of the model are not dates *)
to_datetime(c) ==
  CASE c.t \in {"ts", "tsaware"} -> c
    [] c.t \in {"int", "float"} -> Ts(0)
    [] OTHER -> NaT

(***************************************************************************)
(* _standardize_columns (app.py lines 25-71).                              *)
(***************************************************************************)
(* cols_lower[k]: the label of the last column whose lower-cased label is k;
   lc holds the lower-cased labels *)
cols_lower(cols, lc, k) ==
  cols[CHOOSE i \in 1..Len(cols) :
         lc[i] = k /\ \A j \in 1..Len(cols) : lc[j] = k => j <= i]

RenameTarget(col) ==
  IF col \in DateTimeNames
  THEN replace(capitalize(col), <<"d","a","t","e","t","i","m","e">>,
               <<"D","a","t","e","T","i","m","e">>)
  ELSE IF col = <<"e","m","a","i","l">> THEN C_Email
  ELSE capitalize(col)

RecognizedSet == Range(RecognizedNames)

(* df.rename(columns=rename_map) *)
Rename(t) ==
  Only({[cols |-> SeqOf([i \in 1..Len(t.cols) |->
                    IF lc[i] \in RecognizedSet /\ cols_lower(t.cols, lc, lc[i]) = t.cols[i]
                    THEN RenameTarget(lc[i])
                    ELSE t.cols[i]]),
         rows |-> t.rows] :
        lc \in {SeqOf([i \in 1..Len(t.cols) |-> lower(t.cols[i])])}})

(* lines 42-56: the columns created when missing, with their default cell *)
Defaults ==
  <<[label |-> C_Name, cell |-> Str(<<>>)],
    [label |-> C_Phone, cell |-> Str(<<>>)],
    [label |-> C_Email, cell |-> Str(<<>>)],
    [label |-> C_Company, cell |-> Str(<<>>)],
    [label |-> C_Title, cell |-> Str(<<>>)],
    [label |-> C_State, cell |-> Str(<<>>)],
    [label |-> C_Status, cell |-> Str(<<>>)],
    [label |-> C_MeetingDateTime, cell |-> NaT],
    [label |-> C_CallbackDateTime, cell |-> NaT],
    [label |-> C_LastCallDateTime, cell |-> NaT],
    [label |-> C_Attempts, cell |-> Int_(0)],
    [label |-> C_Notes, cell |-> Str(<<>>)]>>

Missing(cols) == SelectSeq(Defaults, LAMBDA d : \A i \in 1..Len(cols) : cols[i] # d.label)

EnsureColumns(t) ==
  Only({[cols |-> t.cols \o SeqOf([k \in 1..Len(m) |-> m[k].label]),
         rows |-> SeqOf([r \in 1..NRows(t) |->
                    t.rows[r] \o SeqOf([k \in 1..Len(m) |-> m[k].cell])])] :
        m \in {Missing(t.cols)}})

(* lines 59-63.  A label carried by several columns makes df[label] a frame:
   the conversion raises and the except clause leaves the columns as they are *)
CoerceDates(t) ==
  [cols |-> t.cols,
   rows |-> SeqOf([r \in 1..NRows(t) |->
              SeqOf([i \in 1..Len(t.cols) |->
                IF /\ t.cols[i] \in {C_MeetingDateTime, C_CallbackDateTime, C_LastCallDateTime}
                   /\ \A j \in 1..Len(t.cols) : t.cols[j] = t.cols[i] => j = i
                THEN to_datetime(t.rows[r][i])
                ELSE t.rows[r][i]])])]

RaisesAttempts(t) ==
  \/ Cardinality(ColIdx(t, C_Attempts)) # 1
  \/ \E r \in 1..NRows(t) : to_numeric(Get(t, r, C_Attempts, NaN)).t = "inf"

(* lines 64-67 *)
CoerceAttempts(t) ==
  IF RaisesAttempts(t) THEN t
  ELSE [cols |-> t.cols,
        rows |-> SeqOf([r \in 1..NRows(t) |->
                   SeqOf([i \in 1..Len(t.cols) |->
                     IF t.cols[i] = C_Attempts
                     THEN astype_int(fillna0(to_numeric(t.rows[r][i])))
                     ELSE t.rows[r][i]])])]

_standardize_columns(t) ==
  Only({Select(t4, APP_COLUMNS) :
         t4 \in {CoerceAttempts(t3) :
           t3 \in {CoerceDates(t2) :
             t2 \in {EnsureColumns(t1) :
               t1 \in {Rename(t0) : t0 \in {t}}}}}})

(***************************************************************************)
(* The session: the file uploader, the record collection, the filters and  *)
(* the "increment attempts" button (app.py lines 149-161, 179-191,         *)
(* 231-236, 256-259).  Every interaction runs the script from the top.     *)
(***************************************************************************)
Frame(cols, rows) == [cols |-> cols, rows |-> rows]

(* what the file uploader holds: nothing, or the frame read from the file *)
None == [present |-> FALSE, cols |-> <<>>, rows |-> <<>>]

File(t) == [present |-> TRUE, cols |-> t.cols, rows |-> t.rows]

(* line 154: _standardize_columns(pd.DataFrame(columns=REQUIRED + OPTIONAL)) *)
EmptyFrame == _standardize_columns(Frame(REQUIRED_COLUMNS \o OPTIONAL_COLUMNS, <<>>))

STATUS_OPTIONS ==
  <<Str(<<>>), Str(<<"V","o","i","c","e","m","a","i","l">>), Str(<<"Y","e","s">>), Str(<<"N","o">>),
    Str(<<"C","a","l","l"," ","b","a","c","k"," ","l","a","t","e","r">>)>>

(* str(cell).strip() is non-empty; the cells of these columns are text or missing *)
NonBlank(c) == c.t # "str" \/ strip(c.s) # <<>>

(* lines 183-184: the values a State or Company filter offers *)
Options(t, label) ==
  {Get(t, r, label, NaN) : r \in {q \in 1..NRows(t) :
     ~isna(Get(t, q, label, NaN)) /\ NonBlank(Get(t, q, label, NaN))}}

Passes(t, r, label, filter) == filter = {} \/ Get(t, r, label, NaN) \in filter

(* lines 185-191: the index labels of df_view, in order *)
df_view(t, sf, stf, cf) ==
  SelectSeq([r \in 1..NRows(t) |-> r],
            LAMBDA r : /\ Passes(t, r, C_Status, sf)
                       /\ Passes(t, r, C_State, stf)
                       /\ Passes(t, r, C_Company, cf))

(* line 161: a file held by the uploader replaces the collection in every run *)
Reload(up, t) == IF ~up.present THEN t ELSE _standardize_columns(Frame(up.cols, up.rows))

(* lines 232-236, with no cell edited: an empty view replaces the collection
   by the standardized (empty) editor content *)
MergeEdits(t, view) ==
  IF view # <<>> THEN t ELSE _standardize_columns(Frame(t.cols, <<>>))

(* a multiselect whose options changed starts again from its default *)
KeepFilter(filter, options) == IF filter \subseteq options THEN filter ELSE {}

(* .astype(int) raises on a cell that is no integer *)
RaisesIncrement(t, view) ==
  \/ Cardinality(ColIdx(t, C_Attempts)) # 1
  \/ \E k \in 1..Len(view) : Get(t, view[k], C_Attempts, NaN).t # "int"

(* line 258 *)
Increment(t, view) ==
  IF RaisesIncrement(t, view) THEN t
  ELSE [cols |-> t.cols,
        rows |-> SeqOf([r \in 1..NRows(t) |->
                   SeqOf([i \in 1..Len(t.cols) |->
                     IF t.cols[i] = C_Attempts /\ r \in Range(view)
                     THEN Int_(t.rows[r][i].n + 1)
                     ELSE t.rows[r][i]])])]

(* one run of the script: reload, offer the filter options, filter, merge,
   and the button if clicked; stf and cf are the selections asked for *)
RunFrom(s0, sf, stf, cf, click) ==
  Only(UNION {{IF click THEN Increment(s1, view) ELSE s1 : s1 \in {MergeEdits(s0, view)}} :
               view \in {df_view(s0, sf, stf, cf)}})

(* the state a run leaves behind; s0 is the collection after line 161.  out
   keeps what the run reported: the operation, the size of the view and, for a
   click, the collection the click found *)
Step(s0, up, sf, stf, cf, click, op) ==
  \E stf1 \in {KeepFilter(stf, Options(s0, C_State))} :
    \E cf1 \in {KeepFilter(cf, Options(s0, C_Company))} :
      /\ uploaded' = up
      /\ status_filter' = sf
      /\ state_filter' = stf1
      /\ company_filter' = cf1
      /\ df' = RunFrom(s0, sf, stf1, cf1, click)
      /\ out' = [op |-> op, n |-> Len(df_view(s0, sf, stf1, cf1)),
                 before |-> IF click THEN df ELSE Frame(<<>>, <<>>)]

Small(S) == {x \in SUBSET S : Cardinality(x) <= MaxSelected}

(* lines 149-161: a file is chosen; the model imports into an empty collection *)
UploadFile(t) ==
  /\ ~uploaded.present
  /\ NRows(df) = 0
  /\ \E s0 \in {Reload(File(t), df)} :
       Step(s0, File(t), status_filter, state_filter, company_filter, FALSE, "upload")

(* the file is removed from the uploader *)
ClearFile ==
  /\ uploaded.present
  /\ Step(df, None, status_filter, state_filter, company_filter, FALSE, "clear")

(* line 182 *)
SetStatusFilter ==
  \E s0 \in {Reload(uploaded, df)} :
    \E S \in Small(Range(Tail(STATUS_OPTIONS))) :
      /\ S # status_filter
      /\ Step(s0, uploaded, S, state_filter, company_filter, FALSE, "filter")

(* line 183 *)
SetStateFilter ==
  \E s0 \in {Reload(uploaded, df)} :
    \E S \in Small(Options(s0, C_State)) :
      /\ S # state_filter
      /\ Step(s0, uploaded, status_filter, S, company_filter, FALSE, "filter")

(* line 184 *)
SetCompanyFilter ==
  \E s0 \in {Reload(uploaded, df)} :
    \E S \in Small(Options(s0, C_Company)) :
      /\ S # company_filter
      /\ Step(s0, uploaded, status_filter, state_filter, S, FALSE, "filter")

(* the counter is capped so that the model is finite *)
BelowCap(t) ==
  \A r \in 1..NRows(t) :
    Get(t, r, C_Attempts, NaN).t = "int" => Get(t, r, C_Attempts, NaN).n < MaxAttempts

(* lines 256-259 *)
IncrementAttempts ==
  \E s0 \in {Reload(uploaded, df)} :
    /\ BelowCap(s0)
    /\ Step(s0, uploaded, status_filter, state_filter, company_filter, TRUE, "increment")

(***************************************************************************)
(* The files imported in the session specification: windows of a sample    *)
(* sheet whose header is not in canonical case or order.                   *)
(***************************************************************************)
T_NY == <<"N","Y">>

T_CA == <<"C","A">>

T_Yes == <<"Y","e","s">>

T_No == <<"N","o">>

T_Acme == <<"A","c","m","e">>

Windows(rows, n) ==
  {SubSeq(rows, i, j) : i \in 1..Len(rows), j \in 0..Len(rows)} \cap
  {w \in {SubSeq(rows, i, j) : i \in 1..Len(rows), j \in 0..Len(rows)} : Len(w) <= n}

SessionFiles ==
  {Frame(<<C_Name, <<"S","T","A","T","E">>, <<"s","t","a","t","u","s">>, C_Company,
           <<"a","t","t","e","m","p","t","s">>>>, w) :
     w \in Windows(
             <<<<Str(<<"A">>), Str(T_NY), Str(T_Yes), Str(T_Acme), Int_(0)>>,
               <<Str(<<"B">>), Str(T_CA), Str(<<>>), Str(T_Acme), Int_(-1)>>,
               <<Str(<<"C">>), Str(T_NY), Str(T_No), Str(<<>>), Str(<<"a","b","c">>)>>,
               <<Str(<<"D">>), Str(T_CA), Str(T_Yes), NaN, NaN>>,
               <<Str(<<"E">>), Str(T_NY), NaN, Str(T_Acme), Float(15)>>,
               <<Str(<<"F">>), NaN, Str(<<"y","e","s">>), Str(T_Acme), Str(<<"-","2">>)>>>>,
             MaxRows)}

Init ==
  /\ uploaded = None
  /\ df = EmptyFrame
  /\ status_filter = {}
  /\ state_filter = {}
  /\ company_filter = {}
  /\ out = [op |-> "start", n |-> 0, before |-> Frame(<<>>, <<>>)]

Next ==
  \/ \E t \in SessionFiles : UploadFile(t)
  \/ ClearFile
  \/ SetStatusFilter
  \/ SetStateFilter
  \/ SetCompanyFilter
  \/ IncrementAttempts

Spec == Init /\ [][Next]_vars

(***************************************************************************)
(* The normalizer specification: files whose headers take the recognized   *)
(* names in any case, alone or together, next to an unrecognized one.      *)
(***************************************************************************)
HeaderLabels ==
  {C_Name, <<"N","A","M","E">>, <<"n","a","m","e">>,
   <<"A","T","T","E","M","P","T","S">>, C_LastCallDateTime,
   <<"m","e","e","t","i","n","g","d","a","t","e","t","i","m","e">>, C_Status, <<"F","o","o">>}

(* the cell a sample file carries under a label *)
SampleCell(label) ==
  IF lower(label) = lower(C_Attempts) THEN Str(<<"7">>)
  ELSE IF lower(label) \in DateTimeNames THEN Ts(0)
  ELSE IF lower(label) \in RecognizedSet THEN Str(<<"A">>)
  ELSE NaN

RECURSIVE Distinct(_)
Distinct(q) ==
  q = <<>> \/ ((\A i \in 2..Len(q) : q[i] # q[1]) /\ Distinct(Tail(q)))

HeaderSeqs ==
  UNION {{q \in [1..n -> HeaderLabels] : Distinct(q)} : n \in 1..MaxCols}

HeaderFiles ==
  {Frame(q, <<SeqOf([i \in 1..Len(q) |-> SampleCell(q[i])])>>) : q \in HeaderSeqs}

(* any interaction that changes no filter and clicks no button *)
Rerun ==
  \E s0 \in {Reload(uploaded, df)} :
    Step(s0, uploaded, status_filter, state_filter, company_filter, FALSE, "rerun")

NextNormalize ==
  \/ \E t \in HeaderFiles : UploadFile(t)
  \/ ClearFile
  \/ Rerun

SpecNormalize == Init /\ [][NextNormalize]_vars

(***************************************************************************)
(* Timestamps: minutes since 1970-01-01 00:00, as a calendar date and time *)
(* (what strftime and str() of a Timestamp read).                          *)
(***************************************************************************)
Civil(minutes) ==
  LET days == minutes \div 1440
      z == days + 719468
      era == z \div 146097
      doe == z - era * 146097
      yoe == (doe - doe \div 1460 + doe \div 36524 - doe \div 146096) \div 365
      doy == doe - (365 * yoe + yoe \div 4 - yoe \div 100)
      mp == (5 * doy + 2) \div 153
      m == IF mp < 10 THEN mp + 3 ELSE mp - 9
  IN [year |-> yoe + era * 400 + (IF m <= 2 THEN 1 ELSE 0),
      month |-> m,
      day |-> doy - (153 * mp + 2) \div 5 + 1,
      hour |-> (minutes % 1440) \div 60,
      minute |-> minutes % 60]

(* the inverse: the minutes of a calendar date and time *)
Minutes(y, m, d, hh, mm) ==
  LET yy == IF m <= 2 THEN y - 1 ELSE y
      era == yy \div 400
      yoe == yy - era * 400
      doy == (153 * (IF m > 2 THEN m - 3 ELSE m + 9) + 2) \div 5 + d - 1
      doe == yoe * 365 + yoe \div 4 - yoe \div 100 + doy
  IN (era * 146097 + doe - 719468) * 1440 + hh * 60 + mm

D2(n) == <<Digits[((n \div 10) % 10) + 1], Digits[(n % 10) + 1]>>

D4(n) == D2(n \div 100) \o D2(n % 100)

RECURSIVE NatText(_)
NatText(n) ==
  IF n < 10 THEN <<Digits[n + 1]>> ELSE NatText(n \div 10) \o <<Digits[(n % 10) + 1]>>

IntText(n) == IF n < 0 THEN <<"-">> \o NatText(0 - n) ELSE NatText(n)

MonthNames ==
  <<"January", "February", "March", "April", "May", "June", "July", "August",
    "September", "October", "November", "December">>

(* strftime("%B %d, %Y") *)
StrfDate(minutes) ==
  LET c == Civil(minutes)
  IN <<MonthNames[c.month], " ">> \o D2(c.day) \o <<",", " ">> \o D4(c.year)

(* strftime("%I:%M %p") *)
StrfTime(minutes) ==
  LET c == Civil(minutes)
      h12 == IF c.hour % 12 = 0 THEN 12 ELSE c.hour % 12
  IN D2(h12) \o <<":">> \o D2(c.minute) \o <<" ", IF c.hour < 12 THEN "AM" ELSE "PM">>

(* strftime("%Y%m%dT%H%M%SZ") *)
StrfIcs(minutes) ==
  LET c == Civil(minutes)
  IN D4(c.year) \o D2(c.month) \o D2(c.day) \o <<"T">> \o D2(c.hour) \o D2(c.minute)
     \o <<"0", "0", "Z">>

(* str(Timestamp) *)
TsText(minutes) ==
  LET c == Civil(minutes)
  IN D4(c.year) \o <<"-">> \o D2(c.month) \o <<"-">> \o D2(c.day) \o <<" ">>
     \o D2(c.hour) \o <<":">> \o D2(c.minute) \o <<":", "0", "0">>

RECURSIVE lstrip0(_)
lstrip0(s) == IF s # <<>> /\ s[1] = "0" THEN lstrip0(Tail(s)) ELSE s

(* str(value) of a cell *)
str(c) ==
  CASE c.t = "str" -> c.s
    [] c.t = "int" -> IntText(c.n)
    [] c.t = "float" ->
         (IF c.n < 0 THEN <<"-">> ELSE <<>>)
         \o NatText((IF c.n < 0 THEN 0 - c.n ELSE c.n) \div 10) \o <<".">>
         \o NatText((IF c.n < 0 THEN 0 - c.n ELSE c.n) % 10)
    [] c.t = "inf" -> <<"i", "n", "f">>
    [] c.t = "nan" -> <<"n", "a", "n">>
    [] c.t = "nat" -> <<"N", "a", "T">>
    [] c.t = "ts" -> TsText(c.n)
    [] OTHER -> TsText(c.n) \o <<"+", "0", "0", ":", "0", "0">>

(***************************************************************************)
(* str.format with keyword arguments.  The templates of the model hold     *)
(* no conversion, format specification, attribute or index ("!", ":", ".", *)
(* "["); a field name is the text between the braces.                      *)
(***************************************************************************)
Raised == [ok |-> FALSE, text |-> <<>>]

Cons(prefix, r) == IF r.ok THEN [ok |-> TRUE, text |-> prefix \o r.text] ELSE r

FirstIdx(s, c) == CHOOSE i \in 1..Len(s) : s[i] = c /\ \A j \in 1..(i - 1) : s[j] # c

RECURSIVE format(_, _)
format(s, m) ==
  IF s = <<>> THEN [ok |-> TRUE, text |-> <<>>]
  ELSE IF s[1] = "{"
  THEN IF Len(s) >= 2 /\ s[2] = "{"
       THEN Cons(<<"{">>, format(SubSeq(s, 3, Len(s)), m))
       ELSE IF "}" \notin Range(s) THEN Raised
       ELSE IF "{" \in Range(SubSeq(s, 2, FirstIdx(s, "}") - 1)) THEN Raised
       ELSE IF SubSeq(s, 2, FirstIdx(s, "}") - 1) \notin DOMAIN m THEN Raised
       ELSE Cons(m[SubSeq(s, 2, FirstIdx(s, "}") - 1)],
                 format(SubSeq(s, FirstIdx(s, "}") + 1, Len(s)), m))
  ELSE IF s[1] = "}"
  THEN IF Len(s) >= 2 /\ s[2] = "}"
       THEN Cons(<<"}">>, format(SubSeq(s, 3, Len(s)), m))
       ELSE Raised
  ELSE Cons(<<s[1]>>, format(Tail(s), m))

(***************************************************************************)
(* The template renderer (app.py lines 84-127).                            *)
(***************************************************************************)
(* bool(value): what "full_name or ''" tests *)
Truthy(c) ==
  CASE c.t = "str" -> c.s # <<>>
    [] c.t \in {"int", "float"} -> c.n # 0
    [] OTHER -> TRUE

(* line 85: (full_name or "").strip() raises on a value that is no text *)
FirstNameRaises(c) == Truthy(c) /\ c.t # "str"

(* lines 84-86, for a name it does not raise on *)
_first_name(c) ==
  IF ~Truthy(c) \/ strip(c.s) = <<>> THEN <<>> ELSE split(strip(c.s), <<" ">>)[1]

(* lines 88-96 *)
_fmt_date(c) ==
  CASE isna(c) -> <<>>
    [] c.t = "str" -> c.s
    [] OTHER -> StrfDate(c.n)

(* lines 98-106 *)
_fmt_time(c) ==
  CASE isna(c) -> <<>>
    [] c.t = "str" -> c.s
    [] OTHER -> lstrip0(StrfTime(c.n))

(* lines 109-118 *)
TemplateMapping(t, r) ==
  LET name == Get(t, r, C_Name, Str(<<>>))
      meeting_dt == Get(t, r, C_MeetingDateTime, NaT)
  IN [k \in {<<"name">>, <<"first_name">>, <<"company">>, <<"meeting_datetime">>, <<"meeting_date">>,
             <<"meeting_time">>} |->
       CASE k = <<"name">> -> str(name)
         [] k = <<"first_name">> -> _first_name(name)
         [] k = <<"company">> -> str(Get(t, r, C_Company, Str(<<>>)))
         [] k = <<"meeting_datetime">> -> IF isna(meeting_dt) THEN <<>> ELSE str(meeting_dt)
         [] k = <<"meeting_date">> -> _fmt_date(meeting_dt)
         [] OTHER -> _fmt_time(meeting_dt)]

(* lines 119-126: the template itself when the substitution raises *)
Substitute(tmpl, m) == IF format(tmpl, m).ok THEN format(tmpl, m).text ELSE tmpl

(* lines 108-127 *)
_render_template(t, r, subject_tmpl, body_tmpl) ==
  IF FirstNameRaises(Get(t, r, C_Name, Str(<<>>)))
  THEN [raised |-> TRUE, subject |-> <<>>, body |-> <<>>]
  ELSE Only({[raised |-> FALSE,
              subject |-> Substitute(subject_tmpl, m),
              body |-> Substitute(body_tmpl, m)] : m \in {TemplateMapping(t, r)}})

(***************************************************************************)
(* The renderer specification: a sheet is imported and the preview is      *)
(* rendered for a record and a pair of templates (lines 360-376).          *)
(***************************************************************************)
TemplateParts ==
  {<<"H", "i", " ">>, <<"{", "first_name", "}">>, <<"{", "unknown_field", "}">>,
   <<"{", "meeting_time", "}">>, <<"{">>, <<"}">>}

RECURSIVE Concat(_)
Concat(q) == IF q = <<>> THEN <<>> ELSE Head(q) \o Concat(Tail(q))

Templates(n) == {Concat(q) : q \in UNION {[1..k -> TemplateParts] : k \in 0..n}}

(* a template of up to MaxParts parts beside an empty one, or two templates
   of at most one part each *)
TemplatePairs ==
  (Templates(MaxParts) \X Templates(0)) \cup (Templates(0) \X Templates(MaxParts))
    \cup (Templates(1) \X Templates(1))

RenderFiles ==
  {Frame(<<<<"n","a","m","e">>, C_Company, C_MeetingDateTime>>, w) :
     w \in Windows(
             <<<<Str(<<"J","a","n","e"," ","D","o","e">>), Str(T_Acme), Ts(Minutes(2025, 3, 4, 14, 30))>>,
               <<Str(<<>>), NaN, NaT>>,
               <<NaN, Str(T_Acme), NaT>>,
               <<Str(<<" ","A","n","a"," "," ","L","o","p","e","z">>), Str(<<>>),
                 Ts(Minutes(2025, 1, 1, 0, 5))>>>>,
             MaxRows)}

Preview ==
  /\ NRows(df) > 0
  /\ \E s0 \in {Reload(uploaded, df)} :
       \E s1 \in {RunFrom(s0, status_filter, state_filter, company_filter, FALSE)} :
         \E idx \in 1..NRows(s1) : \E tp \in TemplatePairs :
           /\ df' = s1
           /\ out' = [op |-> "render", idx |-> idx, subject_tmpl |-> tp[1],
                      body_tmpl |-> tp[2],
                      result |-> _render_template(s1, idx, tp[1], tp[2])]
           /\ UNCHANGED <<uploaded, status_filter, state_filter, company_filter>>

NextRender ==
  \/ \E t \in RenderFiles : UploadFile(t)
  \/ Preview

SpecRender == Init /\ [][NextRender]_vars

(***************************************************************************)
(* Time zones (zoneinfo).  The zones of the model are those of             *)
(* COMMON_TIMEZONES, under the United States rule in force since 2007:     *)
(* daylight time from 02:00 on the second Sunday of March to 02:00 on the  *)
(* first Sunday of November.                                               *)
(***************************************************************************)
COMMON_TIMEZONES ==
  <<"America/New_York", "America/Chicago", "America/Denver", "America/Los_Angeles",
    "America/Phoenix", "America/Anchorage", "America/Honolulu", "UTC">>

(* variant of ZoneInfoRaises that resolves every name *)
ZoneInfoLenient(tzname) == FALSE

(* ZoneInfo(tzname) raises for a name that is not in the time zone database *)
ZoneInfoRaises(tzname) == tzname \notin Range(COMMON_TIMEZONES)

(* standard offset from UTC, in minutes; the last case is UTC *)
ZoneStd(tzname) ==
  CASE tzname = "America/New_York" -> 0 - 300
    [] tzname = "America/Chicago" -> 0 - 360
    [] tzname \in {"America/Denver", "America/Phoenix"} -> 0 - 420
    [] tzname = "America/Los_Angeles" -> 0 - 480
    [] tzname = "America/Anchorage" -> 0 - 540
    [] tzname = "America/Honolulu" -> 0 - 600
    [] OTHER -> 0

ZoneHasDst(tzname) ==
  tzname \in {"America/New_York", "America/Chicago", "America/Denver",
              "America/Los_Angeles", "America/Anchorage"}

Days(y, m, d) == Minutes(y, m, d, 0, 0) \div 1440

(* 0 is Sunday; 1970-01-01 was a Thursday *)
DayOfWeek(days) == (days + 4) % 7

FirstSundayFrom(days) == days + ((7 - DayOfWeek(days)) % 7)

(* wall-clock minutes at which daylight time starts and ends in year y *)
DstStart(y) == (FirstSundayFrom(Days(y, 3, 1)) + 7) * 1440 + 120

DstEnd(y) == FirstSundayFrom(Days(y, 11, 1)) * 1440 + 120

(* tzinfo.utcoffset of a wall-clock time with fold = 0: a time in the skipped
   hour takes the offset before the change, a repeated time the first one *)
utcoffset(tzname, wall) ==
  IF /\ ZoneHasDst(tzname)
     /\ DstStart(Civil(wall).year) + 60 <= wall
     /\ wall < DstEnd(Civil(wall).year)
  THEN ZoneStd(tzname) + 60
  ELSE ZoneStd(tzname)

(***************************************************************************)
(* The calendar invite encoder (app.py lines 267-308).  An aware timestamp *)
(* is held as its UTC instant, so adding the duration to it is the         *)
(* absolute arithmetic of pandas.  A call takes the widget values a and    *)
(* what it generates itself, g: the uuid4 and the current time.            *)
(***************************************************************************)
CRLF == <<"\r\n">>

(* variant of localize that adds the offset *)
localize_east(tzname, wall) == wall + utcoffset(tzname, wall)

(* lines 276, 281: replace(tzinfo=local) of a naive timestamp, as a UTC instant *)
localize(tzname, wall) == wall - utcoffset(tzname, wall)

(* line 287 *)
DescriptionMapping(name, company, notes) ==
  [k \in {<<"name">>, <<"company">>, <<"notes">>} |->
     CASE k = <<"name">> -> name
       [] k = <<"company">> -> company
       [] OTHER -> notes]

(* lines 284-286, 288-307; the chunk "Meeting -- " is the literal that ends
   in an en dash and a space *)
ics_lines(name, company, email, start_utc, a, g, description) ==
  <<<<"BEGIN:VCALENDAR">>,
    <<"VERSION:2.0">>,
    <<"PRODID:-//Prospecting Manager//EN">>,
    <<"CALSCALE:GREGORIAN">>,
    <<"METHOD:PUBLISH">>,
    <<"BEGIN:VEVENT">>,
    <<"UID:">> \o g.uid \o <<"@prospecting-app">>,
    <<"DTSTAMP:">> \o StrfIcs(g.now),
    <<"DTSTART:">> \o StrfIcs(start_utc),
    <<"DTEND:">> \o StrfIcs(start_utc + a.duration_min),
    <<"SUMMARY:">> \o <<"Meeting -- ">> \o name
      \o (IF company = <<>> THEN <<>> ELSE <<" (">> \o company \o <<")">>),
    <<"DESCRIPTION:">> \o replace(description, <<"\n">>, <<"\\", "n">>),
    <<"LOCATION:">> \o a.location,
    <<"ORGANIZER;CN=">> \o a.organizer_name \o <<":mailto:">> \o a.organizer_email>>
  \o (IF email = <<>> THEN <<>>
      ELSE <<<<"ATTENDEE;CN=">> \o name \o <<";ROLE=REQ-PARTICIPANT:mailto:">> \o email>>)
  \o <<<<"END:VEVENT">>, <<"END:VCALENDAR">>>>

NoBytes == [raised |-> FALSE, bytes |-> <<>>]

Raise == [raised |-> TRUE, bytes |-> <<>>]

(* lines 267-308 *)
_ics_event_bytes(t, r, a, g) ==
  LET name == strip(str(Get(t, r, C_Name, Str(<<>>))))
      company == strip(str(Get(t, r, C_Company, Str(<<>>))))
      notes == strip(str(Get(t, r, C_Notes, Str(<<>>))))
      meeting_dt == Get(t, r, C_MeetingDateTime, NaT)
      start_utc == IF meeting_dt.t = "ts" THEN localize(a.tzname, meeting_dt.n)
                   ELSE meeting_dt.n
      description == format(a.desc_template, DescriptionMapping(name, company, notes))
      email == strip(str(Get(t, r, C_Email, Str(<<>>))))
  IN IF isna(meeting_dt) THEN NoBytes
     ELSE IF meeting_dt.t = "ts" /\ ZoneInfoRaises(a.tzname) THEN Raise
     ELSE IF ~description.ok THEN Raise
     ELSE [raised |-> FALSE,
           bytes |-> join(CRLF, ics_lines(name, company, email, start_utc, a, g,
                                          description.text)) \o CRLF]

(***************************************************************************)
(* The bulk invite document (app.py lines 310-332).                        *)
(***************************************************************************)
(* lines 310-311: the row positions of yes_df *)
yes_df(t) ==
  LET Test(r) == /\ lower(str(Get(t, r, C_Status, NaN))) = <<"y","e","s">>
                 /\ ~isna(Get(t, r, C_MeetingDateTime, NaT))
  IN SelectSeq(SeqOf([r \in 1..NRows(t) |-> r]), Test)

(* lines 326-329 *)
RECURSIVE BulkBlocks(_)
BulkBlocks(events) ==
  IF events = <<>> THEN <<>>
  ELSE (IF Len(split(Head(events), <<"BEGIN:VEVENT">>)) > 1
        THEN <<<<"BEGIN:VEVENT">>
               \o split(split(split(Head(events), <<"BEGIN:VEVENT">>)[2],
                              <<"END:VCALENDAR">>)[1],
                        <<"END:VEVENT">>)[1]
               \o <<"END:VEVENT">>>>
        ELSE <<>>)
       \o BulkBlocks(Tail(events))

BulkHeader ==
  <<<<"BEGIN:VCALENDAR">>, <<"VERSION:2.0">>, <<"PRODID:-//Prospecting Manager//EN">>,
    <<"CALSCALE:GREGORIAN">>, <<"METHOD:PUBLISH">>>>

(* lines 319-332; gen[k] is what the k-th call generates *)
bulk_bytes(t, a, gen) ==
  LET HasBytes(e) == e # <<>>
      Document(calls) ==
        IF \E k \in 1..Len(calls) : calls[k].raised THEN Raise
        ELSE Only({IF events = <<>> THEN NoBytes
                   ELSE [raised |-> FALSE,
                         bytes |-> join(CRLF, BulkHeader \o BulkBlocks(events)
                                                \o <<<<"END:VCALENDAR">>>>) \o CRLF] :
                     events \in {SelectSeq(SeqOf([k \in 1..Len(calls) |-> calls[k].bytes]),
                                           HasBytes)}})
  IN Only({Document(calls) :
             calls \in {SeqOf([k \in 1..Len(yes) |-> _ics_event_bytes(t, yes[k], a, gen[k])]) :
                          yes \in {yes_df(t)}}})

(***************************************************************************)
(* The invite specification: a sheet is imported, _ics_event_bytes is      *)
(* applied to a record of the collection, and a run of the script builds   *)
(* the bulk document from the sidebar's values (lines 165-173).            *)
(***************************************************************************)
DefaultDuration == 30

DefaultDescription ==
  <<"Meeting with ", "{", "name", "}", " (", "{", "company", "}", ").", "\n", "\n",
    "Notes: ", "{", "notes", "}", "\n">>

Args(tzname, duration_min, desc_template) ==
  [tzname |-> tzname, duration_min |-> duration_min,
   organizer_name |-> <<"Your Name">>, organizer_email |-> <<"you@example.com">>,
   location |-> <<"Phone">>, desc_template |-> desc_template]

(* zone names: the known ones, one that is not in the database, an empty one *)
TzNames == Range(COMMON_TIMEZONES) \cup {"Mars/Phobos", ""}

Durations == {15, DefaultDuration, 90, 240}

DescTemplates ==
  {DefaultDescription, <<>>, <<"{", "notes", "}">>, <<"{", "first_name", "}">>, <<"{">>}

InviteArgs ==
  {Args(tz, DefaultDuration, DefaultDescription) : tz \in TzNames}
    \cup {Args(tz, d, DefaultDescription) :
            tz \in {"America/New_York", "America/Los_Angeles", "UTC"}, d \in Durations}
    \cup {Args(tz, DefaultDuration, dt) :
            tz \in {"America/New_York", "Mars/Phobos"}, dt \in DescTemplates}

BulkArgs ==
  {Args(tz, DefaultDuration, dt) :
     tz \in {"America/New_York", "UTC"}, dt \in {DefaultDescription, <<>>}}

(* uuid4 and utcnow of a call *)
Generated ==
  {[uid |-> <<"uuid-1">>, now |-> Minutes(2025, 3, 1, 9, 0)],
   [uid |-> <<"uuid-2">>, now |-> Minutes(2025, 3, 1, 9, 1)]}

IcsRows ==
  <<<<Str(<<"A","n","a"," ","L","o","p","e","z">>), Str(T_Acme), Str(<<"a","@","b">>),
      Str(T_Yes), Ts(Minutes(2025, 3, 4, 14, 30)), Str(<<>>)>>,
    <<Str(<<"B","o">>), Str(<<>>), NaN, Str(L_yes), Ts(Minutes(2025, 11, 2, 0, 45)),
      Str(<<"END:VEVENT">>)>>,
    <<Str(<<"C","y">>), NaN, Str(<<>>), Str(T_Yes), NaT, Str(<<>>)>>,
    <<NaN, Str(T_Acme), Str(<<>>), Str(T_No), Ts(Minutes(2025, 12, 31, 23, 50)),
      Str(<<"x", "\n", "y">>)>>,
    <<Str(<<"E","d">>), Str(<<" ">>), Str(<<" ">>), Str(<<"Y","E","S">>),
      Ts(Minutes(2025, 7, 1, 19, 45)), Str(<<"x">>)>>>>

IcsFiles ==
  {Frame(<<C_Name, C_Company, C_Email, C_Status, C_MeetingDateTime, C_Notes>>, w) :
     w \in Windows(IcsRows, MaxRows)
           \cup {<<<<Str(<<"F","a","y">>), Str(T_Acme), Str(<<>>), Str(T_Yes),
                     TsAware(Minutes(2025, 7, 1, 23, 45)), Str(<<>>)>>>>}}

(* _ics_event_bytes applied to a record of the collection *)
Invite ==
  \E idx \in 1..NRows(df) : \E a \in InviteArgs : \E g \in Generated :
    /\ out' = [op |-> "invite", idx |-> idx, a |-> a, g |-> g,
               result |-> _ics_event_bytes(df, idx, a, g)]
    /\ UNCHANGED <<uploaded, df, status_filter, state_filter, company_filter>>

(* a run of the script that reaches the bulk document *)
Bulk ==
  \E s0 \in {Reload(uploaded, df)} :
    \E s1 \in {RunFrom(s0, status_filter, state_filter, company_filter, FALSE)} :
      /\ Len(yes_df(s1)) > 0
      /\ \E a \in BulkArgs : \E gen \in [1..Len(yes_df(s1)) -> Generated] :
           /\ df' = s1
           /\ out' = [op |-> "bulk", a |-> a, gen |-> gen,
                      result |-> bulk_bytes(s1, a, gen)]
           /\ UNCHANGED <<uploaded, status_filter, state_filter, company_filter>>

NextIcs ==
  \/ \E t \in IcsFiles : UploadFile(t)
  \/ Invite
  \/ Bulk

SpecIcs == Init /\ [][NextIcs]_vars

(***************************************************************************)
(* Analytics (app.py lines 414-439).  Rates are held exactly: the overall  *)
(* rate as the fraction yes * 100 / attempted, a group's yes_rate in       *)
(* tenths of a percent after round(1).                                     *)
(***************************************************************************)
(* line 415: comparing a text with 0 raises; the Attempts column holds text
   only when its coercion raised *)
AttemptedRaises(t) == \E r \in 1..NRows(t) : Get(t, r, C_Attempts, NaN).t = "str"

(* line 415 *)
Attempted(t, r) ==
  \/ /\ ~isna(Get(t, r, C_Attempts, NaN))
     /\ \/ Get(t, r, C_Attempts, NaN).t = "inf"
        \/ Get(t, r, C_Attempts, NaN).n > 0
  \/ Len(str(Get(t, r, C_Status, NaN))) > 0

(* line 416 *)
IsYes(t, r) == lower(str(Get(t, r, C_Status, NaN))) = L_yes

(* lines 419-421 *)
Summary(t) ==
  IF AttemptedRaises(t)
  THEN [raised |-> TRUE, total_attempted |-> 0, total_yes |-> 0,
        overall_rate |-> [num |-> 0, den |-> 1]]
  ELSE \* the rate is total_yes / total_attempted * 100.0, or 0.0
       LET total_attempted == Cardinality({r \in 1..NRows(t) : Attempted(t, r)})
           total_yes == Cardinality({r \in 1..NRows(t) : IsYes(t, r)})
       IN [raised |-> FALSE, total_attempted |-> total_attempted,
           total_yes |-> total_yes,
           overall_rate |-> IF total_attempted # 0
                            THEN [num |-> total_yes * 100, den |-> total_attempted]
                            ELSE [num |-> 0, den |-> 1]]

(* the order of the characters of the model by code point *)
CodeOrder == <<" ">> \o Digits \o UpperChars \o LowerChars

Rank(c) == CHOOSE i \in 1..Len(CodeOrder) : CodeOrder[i] = c

RECURSIVE TextLess(_, _)
TextLess(a, b) ==
  IF a = <<>> THEN b # <<>>
  ELSE IF b = <<>> THEN FALSE
  ELSE IF a[1] = b[1] THEN TextLess(Tail(a), Tail(b))
  ELSE Rank(a[1]) < Rank(b[1])

(* line 430: a missing value joins the group of the empty text; the grouping
   fields of the model hold text *)
GroupKey(t, r, group_col) ==
  IF isna(Get(t, r, group_col, NaN)) THEN <<>> ELSE str(Get(t, r, group_col, NaN))

(* groupby sorts the groups by key *)
RECURSIVE SortedKeys(_)
SortedKeys(S) ==
  IF S = {} THEN <<>>
  ELSE LET m == CHOOSE x \in S : \A y \in S \ {x} : TextLess(x, y)
       IN <<m>> \o SortedKeys(S \ {m})

(* (yes / attempted * 100).round(1) in tenths, halves to the even tenth *)
RoundedRate(yes, attempted) ==
  LET q == (2000 * yes + attempted) \div (2 * attempted)
  IN IF (2000 * yes + attempted) % (2 * attempted) = 0 /\ q % 2 = 1 THEN q - 1 ELSE q

(* lines 431-437: one row per group that has an attempted record *)
GroupRows(t, group_col) ==
  LET keys == SortedKeys({GroupKey(t, r, group_col) : r \in 1..NRows(t)})
      Members(k) == {r \in 1..NRows(t) : GroupKey(t, r, group_col) = k}
      Row(k) == [key |-> k,
                 n |-> Cardinality(Members(k)),
                 attempted |-> Cardinality({r \in Members(k) : Attempted(t, r)}),
                 yes |-> Cardinality({r \in Members(k) : IsYes(t, r)})]
      Kept(g) == g.attempted > 0
      grp == SelectSeq(SeqOf([i \in 1..Len(keys) |-> Row(keys[i])]), Kept)
  IN SeqOf([i \in 1..Len(grp) |->
       [key |-> grp[i].key, n |-> grp[i].n, attempted |-> grp[i].attempted,
        yes |-> grp[i].yes, yes_rate |-> RoundedRate(grp[i].yes, grp[i].attempted)]])

(* variant of SortsBefore that looks at the attempted count only *)
SortsBeforeByCount(a, b) == a.attempted > b.attempted

(* line 438: the order of sort_values(["yes_rate", "attempted"], descending) *)
SortsBefore(a, b) ==
  \/ a.yes_rate > b.yes_rate
  \/ a.yes_rate = b.yes_rate /\ a.attempted > b.attempted

(* the sort is stable: of the rows nothing sorts before, the first goes first *)
RECURSIVE sort_values(_)
sort_values(rows) ==
  IF rows = <<>> THEN <<>>
  ELSE LET i == CHOOSE k \in 1..Len(rows) :
                  /\ \A j \in 1..Len(rows) : ~SortsBefore(rows[j], rows[k])
                  /\ \A j \in 1..(k - 1) : SortsBefore(rows[k], rows[j])
       IN <<rows[i]>> \o sort_values(SubSeq(rows, 1, i - 1) \o SubSeq(rows, i + 1, Len(rows)))

head(rows, n) == SubSeq(rows, 1, IF n < Len(rows) THEN n ELSE Len(rows))

(* lines 428-439 *)
rate_table(t, group_col, top_n) == head(sort_values(GroupRows(t, group_col)), top_n)

(***************************************************************************)
(* The analytics specification: a sheet is imported, a run of the script   *)
(* shows the overall summary, and rate_table is applied to the collection. *)
(***************************************************************************)
DefaultTopN == 15

TopNs == (1..MaxTopN) \cup {DefaultTopN}

AnalyticsRows ==
  <<<<Str(T_Acme), Str(T_NY), Str(T_Yes), Int_(1)>>,
    <<Str(<<"B","o","l","t">>), Str(T_CA), Str(L_yes), Int_(0)>>,
    <<Str(<<"B","o","l","t">>), Str(T_NY), Str(<<"Y","E","S">>), Int_(2)>>,
    <<Str(<<"C","y","a","n">>), Str(T_CA), Str(T_No), Int_(1)>>,
    <<NaN, NaN, NaN, Int_(0)>>,
    <<Str(<<>>), Str(T_NY), Str(<<>>), Int_(0)>>,
    <<Str(T_Acme), Str(T_CA), Str(<<>>), NaN>>,
    <<Str(<<"C","y","a","n">>), Str(T_NY), Str(T_Yes), Int_(1)>>>>

(* the rows of a sheet at the positions S, in order *)
Pick(rows, S) ==
  LET Test(i) == i \in S
      idx == SelectSeq(SeqOf([i \in 1..Len(rows) |-> i]), Test)
  IN SeqOf([k \in 1..Len(idx) |-> rows[idx[k]]])

AnalyticsFiles ==
  {Frame(<<C_Company, C_State, C_Status, C_Attempts>>, Pick(AnalyticsRows, S)) :
     S \in {x \in SUBSET (1..Len(AnalyticsRows)) : Cardinality(x) <= MaxRecords}}

(* a run of the script that reaches the overall summary *)
ShowSummary ==
  \E s0 \in {Reload(uploaded, df)} :
    \E s1 \in {RunFrom(s0, status_filter, state_filter, company_filter, FALSE)} :
      /\ df' = s1
      /\ out' = [op |-> "summary", result |-> Summary(s1)]
      /\ UNCHANGED <<uploaded, status_filter, state_filter, company_filter>>

(* rate_table applied to the collection *)
RateTable ==
  /\ ~AttemptedRaises(df)
  /\ \E group_col \in {C_Company, C_State} : \E top_n \in TopNs :
       out' = [op |-> "rate_table", group_col |-> group_col, top_n |-> top_n,
               rows |-> rate_table(df, group_col, top_n)]
  /\ UNCHANGED <<uploaded, df, status_filter, state_filter, company_filter>>

NextAnalytics ==
  \/ \E t \in AnalyticsFiles : UploadFile(t)
  \/ ShowSummary
  \/ RateTable

SpecAnalytics == Init /\ [][NextAnalytics]_vars

(***************************************************************************)
(* Claims about the normalizer and the session.                            *)
(***************************************************************************)
AttemptsCells(t) == {t.rows[r][i] : r \in 1..NRows(t), i \in ColIdx(t, C_Attempts)}

(* C1: in every reachable state of the record collection (after any import
   and any sequence of increments) the Attempts field of every record is a
   non-negative integer. *)
C1_AttemptsNonNegative ==
  \A c \in AttemptsCells(df) : c.t = "int" /\ c.n >= 0

(* C9: the normalized collection has exactly the twelve columns in the fixed
   order, whatever the case, order and choice of the input's columns, and
   normalizing it again changes nothing. *)
C9_NormalizeStable ==
  out.op \in {"upload", "rerun", "clear"} =>
    /\ df.cols = APP_COLUMNS
    /\ _standardize_columns(df) = df

(* the record r of collection t is selected by the current filters *)
Selected(t, r) ==
  /\ status_filter = {} \/ Get(t, r, C_Status, NaN) \in status_filter
  /\ state_filter = {} \/ Get(t, r, C_State, NaN) \in state_filter
  /\ company_filter = {} \/ Get(t, r, C_Company, NaN) \in company_filter

(* C10: an "increment attempts" click leaves the number and order of records
   unchanged, raises Attempts by exactly one on every record selected by the
   current filters, and changes no other field and no other record. *)
C10_IncrementFrame ==
  out.op = "increment" =>
    /\ df.cols = out.before.cols
    /\ NRows(df) = NRows(out.before)
    /\ \A r \in 1..NRows(df) : \A i \in 1..Len(df.cols) :
         IF df.cols[i] = C_Attempts /\ Selected(out.before, r)
         THEN df.rows[r][i] = Int_(out.before.rows[r][i].n + 1)
         ELSE df.rows[r][i] = out.before.rows[r][i]

(***************************************************************************)
(* Claims about the template renderer.                                     *)
(***************************************************************************)
(* the field names between braces that str.format resolves *)
KnownFields ==
  {<<"name">>, <<"first_name">>, <<"company">>, <<"meeting_datetime">>, <<"meeting_date">>, <<"meeting_time">>}

(* a template of the model is well formed when every brace is doubled or
   belongs to a pair of braces around one known field name *)
RECURSIVE WellFormed(_)
WellFormed(s) ==
  \/ s = <<>>
  \/ /\ s[1] \notin {"{", "}"}
     /\ WellFormed(Tail(s))
  \/ /\ Len(s) >= 2 /\ s[1] = s[2] /\ s[1] \in {"{", "}"}
     /\ WellFormed(SubSeq(s, 3, Len(s)))
  \/ /\ Len(s) >= 3 /\ s[1] = "{" /\ <<s[2]>> \in KnownFields /\ s[3] = "}"
     /\ WellFormed(SubSeq(s, 4, Len(s)))

T_HiFirstName == <<"H", "i", " ", "{", "first_name", "}">>

T_JaneDoe == <<"J","a","n","e"," ","D","o","e">>

(* C3: rendering never raises, whatever the record and the templates, also
   when the name, the company or the meeting time is empty or missing; a
   template whose substitution fails comes back unchanged, whatever the other
   template does; and the subject template Hi {first_name} rendered for the
   name Jane Doe gives Hi Jane. *)
C3_RenderNeverRaises ==
  out.op = "render" =>
    /\ ~out.result.raised
    /\ ~WellFormed(out.subject_tmpl) => out.result.subject = out.subject_tmpl
    /\ ~WellFormed(out.body_tmpl) => out.result.body = out.body_tmpl
    /\ (/\ out.subject_tmpl = T_HiFirstName
        /\ Get(df, out.idx, C_Name, NaN) = Str(T_JaneDoe))
       => out.result.subject = <<"H", "i", " ", "J", "a", "n", "e">>

(***************************************************************************)
(* Claims about the calendar invite encoder.                               *)
(***************************************************************************)
(* the value of the first line of an invite document that starts with key *)
Field(doc, key) ==
  LET ls == split(doc, CRLF)
      i == CHOOSE k \in 1..Len(ls) :
             /\ ls[k] # <<>> /\ ls[k][1] = key
             /\ \A j \in 1..(k - 1) : ls[j] = <<>> \/ ls[j][1] # key
  IN Tail(ls[i])

(* a stamp YYYYMMDDTHHMM00Z *)
IsIcsStamp(s) ==
  /\ Len(s) = 16
  /\ \A i \in (1..8) \cup (10..15) : IsDigit(s[i])
  /\ s[9] = "T" /\ s[14] = "0" /\ s[15] = "0" /\ s[16] = "Z"

(* the minutes since 1970-01-01 00:00 that a stamp names *)
ParseIcs(s) ==
  Minutes(DigitsVal(SubSeq(s, 1, 4)), DigitsVal(SubSeq(s, 5, 6)), DigitsVal(SubSeq(s, 7, 8)),
          DigitsVal(SubSeq(s, 10, 11)), DigitsVal(SubSeq(s, 12, 13)))

(* the meeting timestamp of the record an invite was asked for *)
InviteMeeting == Get(df, out.idx, C_MeetingDateTime, NaT)

ValidZone(tzname) == tzname \in Range(COMMON_TIMEZONES)

(* C4: for a record without a meeting timestamp _ics_event_bytes returns the
   empty result and raises nothing, whatever the other arguments; for a record
   with a meeting timestamp and a valid zone name it returns a document and
   raises nothing. *)
C4_InviteTotal ==
  out.op = "invite" =>
    /\ isna(InviteMeeting) => out.result = NoBytes
    /\ (~isna(InviteMeeting) /\ ValidZone(out.a.tzname))
       => (~out.result.raised /\ out.result.bytes # <<>>)

(* C5 as stated: every call with an invalid zone name raises and produces no
   document. *)
C5_InvalidZoneAlwaysRaises ==
  (out.op = "invite" /\ ~ValidZone(out.a.tzname))
    => (out.result.raised /\ out.result.bytes = <<>>)

(* C5, amended: with an invalid zone name, a record whose meeting timestamp
   carries no zone makes the call raise and produce no document; a record
   without a meeting timestamp gives the empty result without an error; and a
   timestamp that carries its own zone is encoded at its own instant, so that
   no document with a wrong or default offset is ever produced. *)
C5_InvalidZoneNeverEncoded ==
  (out.op = "invite" /\ ~ValidZone(out.a.tzname)) =>
    /\ InviteMeeting.t = "ts" => (out.result.raised /\ out.result.bytes = <<>>)
    /\ isna(InviteMeeting) => out.result = NoBytes
    /\ (InviteMeeting.t = "tsaware" /\ ~out.result.raised)
       => /\ out.result.bytes # <<>>
          /\ IsIcsStamp(Field(out.result.bytes, "DTSTART:"))
          /\ ParseIcs(Field(out.result.bytes, "DTSTART:")) = InviteMeeting.n

C5_Witness ==
  /\ out.op = "invite" /\ ~ValidZone(out.a.tzname)
  /\ InviteMeeting.t = "ts"
  /\ out.result.raised

(* the offsets from UTC in force in 2025, in minutes: daylight time ran from
   2025-03-09 03:00 to 2025-11-02 02:00 on the wall clock *)
Offset2025(tzname, wall) ==
  LET hours == CASE tzname = "America/New_York" -> 5
                 [] tzname = "America/Chicago" -> 6
                 [] tzname = "America/Denver" -> 7
                 [] tzname = "America/Phoenix" -> 7
                 [] tzname = "America/Los_Angeles" -> 8
                 [] tzname = "America/Anchorage" -> 9
                 [] tzname = "America/Honolulu" -> 10
                 [] tzname = "UTC" -> 0
      summer == /\ tzname \notin {"America/Phoenix", "America/Honolulu", "UTC"}
                /\ Minutes(2025, 3, 9, 3, 0) <= wall
                /\ wall < Minutes(2025, 11, 2, 2, 0)
  IN IF summer THEN 0 - (hours - 1) * 60 ELSE 0 - hours * 60

(* C6: for a record with a naive meeting timestamp, a valid zone and a
   duration of d minutes, DTSTART names the UTC instant of that wall-clock
   time in the zone (the local time minus the zone's offset from UTC;
   2025-03-04 14:30 in America/New_York gives 20250304T193000Z) and DTEND
   names the instant exactly d minutes later, also across a day boundary. *)
C6_StartEndUtc ==
  (/\ out.op = "invite" /\ InviteMeeting.t = "ts" /\ ValidZone(out.a.tzname)
   /\ ~out.result.raised) =>
    /\ out.result.bytes # <<>>
    /\ IsIcsStamp(Field(out.result.bytes, "DTSTART:"))
    /\ IsIcsStamp(Field(out.result.bytes, "DTEND:"))
    /\ ParseIcs(Field(out.result.bytes, "DTSTART:"))
         = InviteMeeting.n - Offset2025(out.a.tzname, InviteMeeting.n)
    /\ ParseIcs(Field(out.result.bytes, "DTEND:"))
         = ParseIcs(Field(out.result.bytes, "DTSTART:")) + out.a.duration_min
    /\ (InviteMeeting.n = Minutes(2025, 3, 4, 14, 30) /\ out.a.tzname = "America/New_York")
       => Field(out.result.bytes, "DTSTART:")
            = <<"2","0","2","5","0","3","0","4","T","1","9","3","0","0","0","Z">>

(* an invite in daylight time whose end falls on the next UTC day *)
C6_Witness ==
  /\ out.op = "invite" /\ InviteMeeting.t = "ts" /\ ValidZone(out.a.tzname)
  /\ ~out.result.raised
  /\ utcoffset(out.a.tzname, InviteMeeting.n) # ZoneStd(out.a.tzname)
  /\ SubSeq(Field(out.result.bytes, "DTSTART:"), 1, 8)
       # SubSeq(Field(out.result.bytes, "DTEND:"), 1, 8)

(* the VEVENT lines of the single-event invite of record r *)
EventBlock(t, r, a, g) ==
  LET ls == split(_ics_event_bytes(t, r, a, g).bytes, CRLF)
      b == CHOOSE k \in 1..Len(ls) : ls[k] = <<"BEGIN:VEVENT">>
                                      /\ \A j \in 1..(k - 1) : ls[j] # <<"BEGIN:VEVENT">>
  IN SubSeq(ls, b, Len(ls) - 2)

(* C7: the bulk document is the VCALENDAR header once, then one VEVENT block
   for each record of the collection that has a meeting timestamp, in
   collection order, each block being the VEVENT block of that record's
   single-event invite (with the id and stamp of its call), then the footer
   once. *)
C7_BulkBlocks ==
  (out.op = "bulk" /\ ~out.result.raised) =>
    out.result.bytes
      = join(CRLF,
             BulkHeader
             \o Concat(SeqOf([k \in 1..Len(yes_df(df)) |->
                               EventBlock(df, yes_df(df)[k], out.a, out.gen[k])]))
             \o <<<<"END:VCALENDAR">>>>) \o CRLF

(* the text of a field of the record an invite was asked for, a missing value
   being empty *)
InviteText(label) ==
  IF isna(Get(df, out.idx, label, Str(<<>>))) THEN <<>>
  ELSE strip(str(Get(df, out.idx, label, Str(<<>>))))

(* the first chunk of each line of a sequence of lines *)
LineKeys(ls) == SeqOf([i \in 1..Len(ls) |-> IF ls[i] = <<>> THEN "" ELSE ls[i][1]])

(* C11: every single-event invite document is the header lines, BEGIN:VEVENT,
   UID, DTSTAMP, DTSTART, DTEND, SUMMARY, DESCRIPTION, LOCATION, ORGANIZER,
   then an ATTENDEE line exactly when the record's email is not empty (an
   empty or missing email gives none), then END:VEVENT and END:VCALENDAR; the
   SUMMARY holds the name, followed by the company in parentheses exactly when
   the company is not empty. *)
C11_InviteLines ==
  (out.op = "invite" /\ out.result.bytes # <<>>) =>
    \E ls \in {split(out.result.bytes, CRLF)} :
      /\ Len(ls) >= 17
      /\ SubSeq(ls, 1, 6) = BulkHeader \o <<<<"BEGIN:VEVENT">>>>
      /\ LineKeys(SubSeq(ls, 7, 14))
           = <<"UID:", "DTSTAMP:", "DTSTART:", "DTEND:", "SUMMARY:", "DESCRIPTION:",
               "LOCATION:", "ORGANIZER;CN=">>
      /\ ls[11] = <<"SUMMARY:", "Meeting -- ">>
                     \o strip(str(Get(df, out.idx, C_Name, Str(<<>>))))
                     \o (IF InviteText(C_Company) = <<>> THEN <<>>
                         ELSE <<" (">> \o InviteText(C_Company) \o <<")">>)
      /\ IF InviteText(C_Email) # <<>>
         THEN /\ Len(ls) = 18
              /\ ls[15] = <<"ATTENDEE;CN=">>
                            \o strip(str(Get(df, out.idx, C_Name, Str(<<>>))))
                            \o <<";ROLE=REQ-PARTICIPANT:mailto:">> \o InviteText(C_Email)
         ELSE Len(ls) = 17
      /\ SubSeq(ls, Len(ls) - 2, Len(ls)) = <<<<"END:VEVENT">>, <<"END:VCALENDAR">>, <<>>>>

(***************************************************************************)
(* Claims about the analytics.                                             *)
(***************************************************************************)
(* the groups of the collection that have an attempted record, as rate_table
   was asked for them *)
AttemptedGroups == Range(GroupRows(df, out.group_col))

(* row a must come before row b *)
StrictlyBefore(a, b) ==
  \/ a.yes_rate > b.yes_rate
  \/ a.yes_rate = b.yes_rate /\ a.attempted > b.attempted

(* C2: rate_table returns at most N groups, each with attempted > 0; of two
   adjacent returned rows the earlier has the greater rate, or the same rate
   and an attempted count that is not smaller; and no group left out beyond
   the N-th would sort before a returned one. *)
C2_RateTableOrder ==
  out.op = "rate_table" =>
    /\ Len(out.rows) <= out.top_n
    /\ Range(out.rows) \subseteq AttemptedGroups
    /\ Len(out.rows) = Cardinality(Range(out.rows))
    /\ \A i \in 1..Len(out.rows) : out.rows[i].attempted > 0
    /\ \A i \in 1..(Len(out.rows) - 1) :
         \/ out.rows[i].yes_rate > out.rows[i + 1].yes_rate
         \/ /\ out.rows[i].yes_rate = out.rows[i + 1].yes_rate
            /\ out.rows[i].attempted >= out.rows[i + 1].attempted
    /\ \A g \in AttemptedGroups \ Range(out.rows) :
         /\ Len(out.rows) = out.top_n
         /\ \A i \in 1..Len(out.rows) : ~StrictlyBefore(g, out.rows[i])

(* a table cut to N rows that ends in a tie of the rate decided by the
   attempted count, with a group left out *)
C2_Witness ==
  /\ out.op = "rate_table"
  /\ Len(out.rows) = out.top_n
  /\ AttemptedGroups \ Range(out.rows) # {}
  /\ \E i \in 1..(Len(out.rows) - 1) :
       /\ out.rows[i].yes_rate = out.rows[i + 1].yes_rate
       /\ out.rows[i].attempted > out.rows[i + 1].attempted
       /\ TextLess(out.rows[i + 1].key, out.rows[i].key)

(* the text of a status, a missing one being empty *)
StatusText(r) ==
  IF isna(Get(df, r, C_Status, NaN)) THEN <<>> ELSE str(Get(df, r, C_Status, NaN))

AttemptsOf(r) == Get(df, r, C_Attempts, NaN)

(* C8: a record counts as attempted exactly when its attempts are above 0 or
   its status is not empty (an empty or missing status with attempts 0 does
   not count), as converted exactly when its status is "yes" in any letter
   case, and the overall rate is converted / attempted * 100, or 0.0 when
   nothing was attempted. *)
C8_Summary ==
  (out.op = "summary" /\ ~out.result.raised) =>
    /\ out.result.total_attempted
         = Cardinality({r \in 1..NRows(df) :
             \/ ~isna(AttemptsOf(r)) /\ AttemptsOf(r).n > 0
             \/ StatusText(r) # <<>>})
    /\ out.result.total_yes
         = Cardinality({r \in 1..NRows(df) : lower(StatusText(r)) = L_yes})
    /\ IF out.result.total_attempted > 0
       THEN out.result.overall_rate.num * out.result.total_attempted
              = out.result.total_yes * 100 * out.result.overall_rate.den
       ELSE out.result.overall_rate.num = 0

====
